---- MODULE Spec2Model ----
(***************************************************************************)
(* Model of the Gmail history filter proxy, src/index.js lines 1-306 (the  *)
(* Google-Sheet backed variant): the notification queue, the drain lock,   *)
(* the cold-start protocol and the per-notification resolution cycle.      *)
(* Lines 308-513 of the file hold an earlier, in-memory variant of the     *)
(* same program, which is not part of this state machine.                  *)
(*                                                                         *)
(* Conventions                                                             *)
(*  - a historyId is a natural number; 0 stands for every falsy JavaScript *)
(*    value (null, undefined, 0, ''), which the code tests with `!x`.      *)
(*  - a message id is the historyId of the history record that added the   *)
(*    message; a record may list its message several times.                *)
(*  - every `await` of an external call is a suspension point: the part of *)
(*    a handler between two awaits is one atomic action.                   *)
(*  - callbacks queued with process.nextTick run before any I/O callback,  *)
(*    so every I/O action is guarded by ticks = 0.                         *)
(***************************************************************************)
EXTENDS Naturals, Integers, Sequences, FiniteSets, TLC

\* ---------------------------------------------------------------- bounds
MaxRequests == 3      \* HTTP requests that reach app.post('/')
MaxCursor == 3        \* history records the mailbox ever holds

Requests == 1..MaxRequests
Cursors == 1..MaxCursor

VARIABLES
  lastProcessedHistoryId,  \* index.js:19, 0 = null
  isInitialisedThisRun,    \* index.js:20
  initInProgress,          \* index.js:21
  isProcessingQueue,       \* index.js:24
  notificationQueue,       \* index.js:25, sequence of request ids
  ticks,                   \* pending process.nextTick(processItemFromQueue)
  startup,                 \* position of the app.listen callback
  cyc,                     \* per request: the processItemFromQueue call owning it
  arrived,                 \* number of requests received so far
  cursorOf,                \* currentNotificationHistoryId of a request, 0 = none
  resp,                    \* per request: the responses written to its res
  history,                 \* mailbox: history[h] = times record h lists its message
  sheetConfigured,         \* GOOGLE_SHEET_ID is set
  sheet,                   \* the cell of the Google Sheet, 0 = empty
  lastCall,                \* outcome of the latest external call that returned
  fwdBy,                   \* per message: requests whose cycle posted it to n8n
  profileCalls,            \* users/me/profile calls issued
  profileOk                \* users/me/profile calls that succeeded

vars == <<lastProcessedHistoryId, isInitialisedThisRun, initInProgress,
          isProcessingQueue, notificationQueue, ticks, startup, cyc, arrived,
          cursorOf, resp, history, sheetConfigured, sheet, lastCall, fwdBy,
          profileCalls, profileOk>>

engineVars == <<lastProcessedHistoryId, isInitialisedThisRun, initInProgress,
                isProcessingQueue, notificationQueue, ticks, cyc>>

\* ---------------------------------------------------------------- helpers
ZeroCalls == [m \in Cursors |-> 0]

\* the local variables of one processItemFromQueue call
Idle == [pc |-> "idle", start |-> 0, batch |-> <<>>, idx |-> 0,
         processed |-> {}, tagCalls |-> ZeroCalls, fwdCalls |-> ZeroCalls,
         failed |-> {}, qualified |-> {}]

mailboxCursor == Len(history)

RECURSIVE Repeat(_, _)
Repeat(m, k) == IF k = 0 THEN <<>> ELSE <<m>> \o Repeat(m, k - 1)

\* history.list(startHistoryId): the messagesAdded entries of every record
\* after startHistoryId, in order; the request carries no upper bound
RECURSIVE ListChanges(_, _)
ListChanges(h, since) ==
  IF since >= Len(h) THEN <<>>
  ELSE Repeat(since + 1, h[since + 1]) \o ListChanges(h, since + 1)

headersSent(r, n) == r[n] # <<>>

\* if (!res.headersSent) res.status(status).send(...)
\* `by` is who writes: 0 for app.post('/'), else the request owned by the
\* writing processItemFromQueue call
Respond(r, n, status, body, by) ==
  IF headersSent(r, n) THEN r
  ELSE [r EXCEPT ![n] =
          Append(@, [status |-> status, body |-> body, by |-> by])]

Active == {n \in Requests : cyc[n].pc # "idle"}

\* if (isProcessingQueue) return;                             index.js:134
\* (variant: the guard left out)
LockHeld_off == FALSE
LockHeld == isProcessingQueue

\* if (!isInitialisedThisRun) { cold start } else { normal }  index.js:152
\* (variant: the flag is not consulted)
NeedsColdStart_always == TRUE
NeedsColdStart == ~isInitialisedThisRun

\* parseInt(current) <= parseInt(last); on the integers of the model parseInt
\* returns its argument                                       index.js:194
\* (variants: no check; `<` for `<=`)
IsStale_never(cur, last) == FALSE
IsStale_strict(cur, last) == cur < last
IsStale(cur, last) == cur <= last

\* notificationQueue.unshift(item)                        index.js:155, 190
\* (variants: the item is not put back; push for unshift)
Requeue_drop(q, n) == q
Requeue_tail(q, n) == Append(q, n)
Requeue(q, n) == <<n>> \o q

\* what app.post('/') itself writes to res: 400 for a request it rejects,
\* nothing for one it queues                               index.js:97-126
\* (variant: the 202 of line 121 is sent)
IntakeRespond_ack(r, n, valid) ==
  IF valid THEN Respond(r, n, 202, "Accepted", 0)
  ELSE Respond(r, n, 400, "Bad Request", 0)
IntakeRespond(r, n, valid) ==
  IF valid THEN r ELSE Respond(r, n, 400, "Bad Request", 0)

\* processedGmailMessageIdsInBatch.add(gmailMsgId), reached after the try
\* block whether the item was forwarded, skipped or failed   index.js:245
\* (variant: the add sits inside the try block)
MarkProcessed_okOnly(c, m, ok) ==
  IF ok THEN [c EXCEPT !.processed = @ \cup {m}] ELSE c
MarkProcessed(c, m, ok) == [c EXCEPT !.processed = @ \cup {m}]

\* first index from i on whose message id is not in the processed set
\* (`if (!gmailMsgId || processed.has(gmailMsgId)) continue`)  index.js:214
RECURSIVE NextIdx(_, _, _)
NextIdx(batch, i, processed) ==
  IF i > Len(batch) THEN i
  ELSE IF batch[i] \in processed THEN NextIdx(batch, i + 1, processed)
  ELSE i

\* the for loops over the fetched entries, run from entry `from` up to the
\* next await: the tag fetch of the next new message, or, past the last
\* entry, the write of the advanced historyId          index.js:210-258
Walk(c, from) ==
  LET j == NextIdx(c.batch, from, c.processed) IN
  IF j > Len(c.batch) THEN [c EXCEPT !.idx = j, !.pc = "persist"]
  ELSE [c EXCEPT !.idx = j, !.pc = "tags", !.tagCalls[c.batch[j]] = @ + 1]

\* catch (msgError) { console.error(...) }: log and go on  index.js:242-246
\* (variant: the catch leaves the loops)
AfterItemError_break(c, m) ==
  [MarkProcessed(c, m, FALSE) EXCEPT !.failed = @ \cup {m},
                                     !.idx = Len(c.batch) + 1, !.pc = "persist"]
AfterItemError(c, m) ==
  Walk([MarkProcessed(c, m, FALSE) EXCEPT !.failed = @ \cup {m}], c.idx + 1)

\* getAccessToken rethrows a failure of the token request  index.js:37-40
\* (variant: the catch swallows the error)
TokenThrows_swallowed(ok) == FALSE
TokenThrows(ok) == ~ok

\* a failed history.list rejects the awaited promise; the throw reaches the
\* outer catch                                     index.js:199-202, 262
\* (variant: a failure is taken as a response without records)
HistoryThrows_ignored(ok) == FALSE
HistoryThrows(ok) == ~ok

\* lastProcessedHistoryId = profileResponse.data.historyId   index.js:172
\* (variant: the historyId of the notification is taken as the baseline)
BaselineFromProfile_notification(n) == cursorOf[n]
BaselineFromProfile(n) == mailboxCursor

\* the historyId app.post('/') gets out of a request; 0 stands for a request
\* without message.data, with data that is not JSON, or without historyId,
\* all answered 400                                  index.js:98, 109, 123
\* (variant: the checks are left out)
Rejected_never(c) == FALSE
Rejected(c) == c = 0

\* isProcessingQueue = false, in the two early returns and in the finally
\* block                                        index.js:156, 191, 269
Released == FALSE

\* notificationQueue.push({ res, ... })                       index.js:115
\* (variant: unshift for push)
Push_front(q, n) == <<n>> \o q
Push(q, n) == Append(q, n)

\* if (initInProgress) { re-queue }                            index.js:153
\* (variant: the flag is not looked at)
InitBusy_ignored == FALSE
InitBusy == initInProgress

\* finally { initInProgress = false; }: the value of the flag when the
\* try block of an initialisation is left, `threw` telling whether an error
\* was thrown in it                                index.js:182-184, 301-303
\* (variant: the flag is cleared at the end of the try block only)
InitInProgressAtEnd_leak(threw) == threw
InitInProgressAtEnd(threw) == FALSE

\* process.nextTick(processItemFromQueue): one more callback is pending;
\* the two early returns schedule one and the finally block that follows
\* them another                                 index.js:157, 191, 271
\* (variant: nothing is scheduled)
Scheduled_none(t) == t
Scheduled(t) == t + 1

\* if (idFromSheet): a value was read from the sheet   index.js:164, 290
\* (variant: the branch is taken whatever was read)
Truthy_any(id) == TRUE
Truthy(id) == id # 0

\* params: { startHistoryId: lastProcessedHistoryId }         index.js:201
\* (variant: the request starts from the value kept in the sheet)
StartHistoryId_sheet == sheet
StartHistoryId == lastProcessedHistoryId

\* the external calls of the service, and the record kept of the latest one
\* that returned: which call it was and whether it succeeded
Apis == {"token", "sheetRead", "sheetWrite", "profile", "history", "tags",
         "forward"}
Outcome(api, ok) == [api |-> api, ok |-> ok]

\* the label sets messages.get can return
LabelSets == SUBSET {"INBOX", "UNREAD"}

\* messageLabelIds.includes('INBOX')                         index.js:222
\* (variant: every listed message is forwarded)
Qualifies_any(labels) == TRUE
Qualifies(labels) == "INBOX" \in labels

\* the cycle has seen the labels of message m: `qualified` keeps the
\* messages whose labels held INBOX                          index.js:221
SawLabels(c, m, labels) ==
  [c EXCEPT !.qualified = IF "INBOX" \in labels THEN @ \cup {m} ELSE @]

\* writeLastHistoryIdToSheet awaits a request only when GOOGLE_SHEET_ID is
\* set; without it the function warns and returns false at once, and the
\* caller runs on in the same turn of the event loop        index.js:71-74
WriteAwaited == sheetConfigured

\* ---------------------------------------------------------------- Init
Init ==
  /\ lastProcessedHistoryId = 0
  /\ isInitialisedThisRun = FALSE
  /\ initInProgress = FALSE
  /\ isProcessingQueue = FALSE
  /\ notificationQueue = <<>>
  /\ ticks = 0
  /\ startup = "boot"
  /\ cyc = [n \in Requests |-> Idle]
  /\ arrived = 0
  /\ cursorOf = [n \in Requests |-> 0]
  /\ resp = [n \in Requests |-> <<>>]
  /\ history = <<1>>   \* record 1 precedes every baseline: never listed
  /\ sheetConfigured \in BOOLEAN
  /\ sheet \in (IF sheetConfigured THEN {0, 1} ELSE {0})
  /\ lastCall = Outcome("none", TRUE)
  /\ fwdBy = [m \in Cursors |-> {}]
  /\ profileCalls = 0
  /\ profileOk = 0

\* ---------------------------------------------------------------- actions
\* the synchronous head of processItemFromQueue, run on the queue q
\*                                                       index.js:133-149
ProcessItemFromQueue(q) ==
  IF LockHeld \/ q = <<>>
  THEN /\ notificationQueue' = q
       /\ isProcessingQueue' = isProcessingQueue
       /\ cyc' = cyc
  ELSE /\ isProcessingQueue' = TRUE
       /\ notificationQueue' = Tail(q)
       /\ cyc' = [cyc EXCEPT ![Head(q)] = [Idle EXCEPT !.pc = "token"]]

\* app.listen callback up to its first await              index.js:277-288
Listen ==
  /\ startup = "boot"
  /\ IF sheetConfigured
     THEN /\ initInProgress' = TRUE
          /\ isInitialisedThisRun' = isInitialisedThisRun
          /\ startup' = "token"
     ELSE /\ initInProgress' = initInProgress
          /\ isInitialisedThisRun' = FALSE
          /\ startup' = "done"
  /\ UNCHANGED <<lastProcessedHistoryId, isProcessingQueue, notificationQueue,
                 ticks, cyc, arrived, cursorOf, resp, history, sheetConfigured,
                 sheet, lastCall, fwdBy, profileCalls, profileOk>>

\* app.listen callback: getAccessToken returns           index.js:288, 298-303
StartupTokenReturn ==
  /\ startup = "token" /\ ticks = 0
  /\ \E ok \in BOOLEAN :
       /\ lastCall' = Outcome("token", ok)
       /\ IF ~TokenThrows(ok)
          THEN /\ startup' = "sheet"
               /\ UNCHANGED <<isInitialisedThisRun, initInProgress>>
          ELSE /\ startup' = "done"
               /\ isInitialisedThisRun' = FALSE
               /\ initInProgress' = InitInProgressAtEnd(TRUE)
  /\ UNCHANGED <<lastProcessedHistoryId, isProcessingQueue, notificationQueue,
                 ticks, cyc, arrived, cursorOf, resp, history, sheetConfigured,
                 sheet, fwdBy, profileCalls, profileOk>>

\* app.listen callback: readLastHistoryIdFromSheet returns the cell, or null
\* when the read failed                                    index.js:289-303
StartupSheetReturn ==
  /\ startup = "sheet" /\ ticks = 0
  /\ \E ok \in BOOLEAN :
     LET idFromSheet == IF ok THEN sheet ELSE 0 IN
     /\ lastCall' = Outcome("sheetRead", ok)
     /\ IF Truthy(idFromSheet)
        THEN lastProcessedHistoryId' = idFromSheet /\ isInitialisedThisRun' = TRUE
        ELSE lastProcessedHistoryId' = lastProcessedHistoryId
             /\ isInitialisedThisRun' = FALSE
  /\ initInProgress' = InitInProgressAtEnd(FALSE)
  /\ startup' = "done"
  /\ UNCHANGED <<isProcessingQueue, notificationQueue, ticks, cyc, arrived,
                 cursorOf, resp, history, sheetConfigured, sheet, fwdBy, profileCalls, profileOk>>

\* the mailbox gains a history record listing its new message once or twice
MailboxAdd ==
  /\ startup # "boot" /\ ticks = 0
  /\ Len(history) < MaxCursor
  /\ \E k \in {1, 2} : history' = Append(history, k)
  /\ UNCHANGED <<lastProcessedHistoryId, isInitialisedThisRun, initInProgress,
                 isProcessingQueue, notificationQueue, ticks, startup, cyc,
                 arrived, cursorOf, resp, sheetConfigured, sheet, lastCall,
                 fwdBy, profileCalls, profileOk>>

\* app.post('/'): a request without message.data, with undecodable data or
\* without historyId is answered 400                    index.js:97-112, 123
IntakeReject ==
  /\ startup # "boot" /\ ticks = 0
  /\ arrived < MaxRequests
  /\ \E c \in 0..mailboxCursor : Rejected(c)
  /\ arrived' = arrived + 1
  /\ resp' = IntakeRespond(resp, arrived + 1, FALSE)
  /\ UNCHANGED <<lastProcessedHistoryId, isInitialisedThisRun, initInProgress,
                 isProcessingQueue, notificationQueue, ticks, startup, cyc,
                 cursorOf, history, sheetConfigured, sheet, lastCall, fwdBy,
                 profileCalls, profileOk>>

\* app.post('/'): a well-formed notification is pushed and the drain is
\* called                                                index.js:104-129
Intake ==
  /\ startup # "boot" /\ ticks = 0
  /\ arrived < MaxRequests
  /\ \E c \in 0..mailboxCursor :
       /\ ~Rejected(c)
       /\ cursorOf' = [cursorOf EXCEPT ![arrived + 1] = c]
  /\ arrived' = arrived + 1
  /\ resp' = IntakeRespond(resp, arrived + 1, TRUE)
  /\ ProcessItemFromQueue(Push(notificationQueue, arrived + 1))
  /\ UNCHANGED <<lastProcessedHistoryId, isInitialisedThisRun, initInProgress,
                 ticks, startup, history, sheetConfigured, sheet, lastCall,
                 fwdBy, profileCalls, profileOk>>

\* a process.nextTick(processItemFromQueue) callback runs  index.js:157, 271
Tick ==
  /\ ticks > 0
  /\ ticks' = ticks - 1
  /\ ProcessItemFromQueue(notificationQueue)
  /\ UNCHANGED <<lastProcessedHistoryId, isInitialisedThisRun, initInProgress,
                 startup, arrived, cursorOf, resp, history, sheetConfigured,
                 sheet, lastCall, fwdBy, profileCalls, profileOk>>

\* processItemFromQueue: getAccessToken returns; the code runs on to the next
\* await or to the end of the call                       index.js:148-197
TokenReturn(n) ==
  /\ ticks = 0 /\ cyc[n].pc = "token"
  /\ \E ok \in BOOLEAN :
     /\ lastCall' = Outcome("token", ok)
     /\ IF TokenThrows(ok)
        THEN \* catch (error) + finally                   index.js:262-272
             /\ resp' = Respond(resp, n, 500, "Failed processing", n)
             /\ cyc' = [cyc EXCEPT ![n] = Idle]
             /\ isProcessingQueue' = Released
             /\ ticks' = Scheduled(ticks)
             /\ UNCHANGED <<lastProcessedHistoryId, isInitialisedThisRun,
                            initInProgress, notificationQueue, profileCalls>>
        ELSE IF NeedsColdStart
        THEN IF InitBusy
             THEN \* re-queue, release, nextTick, return; the finally block
                  \* releases and schedules once more    index.js:153-159
                  /\ notificationQueue' = Requeue(notificationQueue, n)
                  /\ cyc' = [cyc EXCEPT ![n] = Idle]
                  /\ isProcessingQueue' = Released
                  /\ ticks' = Scheduled(Scheduled(ticks))
                  /\ UNCHANGED <<lastProcessedHistoryId, isInitialisedThisRun,
                                 initInProgress, resp, profileCalls>>
             ELSE \* readLastHistoryIdFromSheet returns null without a call
                  \* when no sheet is configured      index.js:45-48, 160-169
                  /\ initInProgress' = TRUE
                  /\ cyc' = [cyc EXCEPT ![n].pc =
                               IF sheetConfigured THEN "sheetRead" ELSE "profile"]
                  /\ profileCalls' =
                       IF sheetConfigured THEN profileCalls ELSE profileCalls + 1
                  /\ UNCHANGED <<lastProcessedHistoryId, isInitialisedThisRun,
                                 isProcessingQueue, notificationQueue, ticks, resp>>
        ELSE IF lastProcessedHistoryId = 0
        THEN \* forced re-initialisation                  index.js:187-192
             /\ isInitialisedThisRun' = FALSE
             /\ notificationQueue' = Requeue(notificationQueue, n)
             /\ cyc' = [cyc EXCEPT ![n] = Idle]
             /\ isProcessingQueue' = Released
             /\ ticks' = Scheduled(Scheduled(ticks))
             /\ UNCHANGED <<lastProcessedHistoryId, initInProgress, resp,
                            profileCalls>>
        ELSE IF IsStale(cursorOf[n], lastProcessedHistoryId)
        THEN \* old or duplicate event                    index.js:194-196
             /\ resp' = Respond(resp, n, 200, "Old or duplicate event", n)
             /\ cyc' = [cyc EXCEPT ![n] = Idle]
             /\ isProcessingQueue' = Released
             /\ ticks' = Scheduled(ticks)
             /\ UNCHANGED <<lastProcessedHistoryId, isInitialisedThisRun,
                            initInProgress, notificationQueue, profileCalls>>
        ELSE \* history.list is called                    index.js:198-202
             /\ cyc' = [cyc EXCEPT ![n].pc = "history",
                                   ![n].start = StartHistoryId]
             /\ UNCHANGED <<lastProcessedHistoryId, isInitialisedThisRun,
                            initInProgress, isProcessingQueue,
                            notificationQueue, ticks, resp, profileCalls>>
  /\ UNCHANGED <<startup, arrived, cursorOf, history, sheetConfigured, sheet,
                 fwdBy, profileOk>>

\* cold start: readLastHistoryIdFromSheet returns the cell, or null when the
\* read failed or the cell is empty                 index.js:49-67, 163-184
SheetReadReturn(n) ==
  /\ ticks = 0 /\ cyc[n].pc = "sheetRead"
  /\ \E ok \in BOOLEAN :
     LET idFromSheet == IF ok THEN sheet ELSE 0 IN
     /\ lastCall' = Outcome("sheetRead", ok)
     /\ IF Truthy(idFromSheet)
        THEN /\ lastProcessedHistoryId' = idFromSheet
             /\ isInitialisedThisRun' = TRUE
             /\ resp' = Respond(resp, n, 200, "Initialized state", n)
             /\ initInProgress' = InitInProgressAtEnd(FALSE)
             /\ cyc' = [cyc EXCEPT ![n] = Idle]
             /\ isProcessingQueue' = Released
             /\ ticks' = Scheduled(ticks)
             /\ profileCalls' = profileCalls
        ELSE /\ cyc' = [cyc EXCEPT ![n].pc = "profile"]
             /\ profileCalls' = profileCalls + 1
             /\ UNCHANGED <<lastProcessedHistoryId, isInitialisedThisRun, resp,
                            initInProgress, isProcessingQueue, ticks>>
  /\ UNCHANGED <<notificationQueue, startup, arrived, cursorOf, history,
                 sheetConfigured, sheet, fwdBy, profileOk>>

\* cold start, past the write of the baseline: the flag is set, the request
\* answered, and the two finally blocks run         index.js:176-184, 268-272
ColdStartEnds(n) ==
  /\ isInitialisedThisRun' = TRUE
  /\ resp' = Respond(resp, n, 200, "Initialized state", n)
  /\ initInProgress' = InitInProgressAtEnd(FALSE)
  /\ cyc' = [cyc EXCEPT ![n] = Idle]
  /\ isProcessingQueue' = Released
  /\ ticks' = Scheduled(ticks)

\* cold start: users/me/profile returns the mailbox's historyId or fails;
\* the baseline is written to the sheet, and without a sheet the cold start
\* ends in this step                                     index.js:169-184
ProfileReturn(n) ==
  /\ ticks = 0 /\ cyc[n].pc = "profile"
  /\ \E ok \in BOOLEAN :
     /\ lastCall' = Outcome("profile", ok)
     /\ IF ok
        THEN /\ lastProcessedHistoryId' = BaselineFromProfile(n)
             /\ profileOk' = profileOk + 1
             /\ IF WriteAwaited
                THEN /\ cyc' = [cyc EXCEPT ![n].pc = "initWrite"]
                     /\ UNCHANGED <<resp, initInProgress, isProcessingQueue,
                                    ticks, isInitialisedThisRun>>
                ELSE ColdStartEnds(n)
        ELSE \* catch (initError), finally, outer finally
             /\ resp' = Respond(resp, n, 500, "Initialization failed", n)
             /\ initInProgress' = InitInProgressAtEnd(TRUE)
             /\ cyc' = [cyc EXCEPT ![n] = Idle]
             /\ isProcessingQueue' = Released
             /\ ticks' = Scheduled(ticks)
             /\ UNCHANGED <<lastProcessedHistoryId, profileOk,
                            isInitialisedThisRun>>
  /\ UNCHANGED <<notificationQueue, startup, arrived,
                 cursorOf, history, sheetConfigured, sheet, fwdBy,
                 profileCalls>>

\* writeLastHistoryIdToSheet: the cell after the PUT; the function returns
\* false, and never throws, when the PUT fails             index.js:75-89
SheetAfterWrite(ok, historyId) ==
  IF sheetConfigured /\ ok THEN historyId ELSE sheet

\* cold start: the PUT of writeLastHistoryIdToSheet returns (a sheet is
\* configured)                                           index.js:174-184
InitWriteReturn(n) ==
  /\ ticks = 0 /\ cyc[n].pc = "initWrite"
  /\ \E ok \in BOOLEAN :
       /\ sheet' = SheetAfterWrite(ok, lastProcessedHistoryId)
       /\ lastCall' = Outcome("sheetWrite", ok)
  /\ ColdStartEnds(n)
  /\ UNCHANGED <<lastProcessedHistoryId, notificationQueue, startup, arrived,
                 cursorOf, history, sheetConfigured, fwdBy,
                 profileCalls, profileOk>>

\* a cycle whose walk is over has set lastProcessedHistoryId to the
\* notification's historyId before it calls the write    index.js:255-258
\* (variant: the cursor advances only when no item failed)
LastAfterWalk_ifNoFailure(c, n) ==
  IF c.pc = "persist" /\ c.failed = {}
  THEN cursorOf[n] ELSE lastProcessedHistoryId
LastAfterWalk(c, n) ==
  IF c.pc = "persist" THEN cursorOf[n] ELSE lastProcessedHistoryId

\* normal branch, past the write of the advanced historyId: the request is
\* answered and the finally block runs            index.js:259, 268-272
CycleEnds(n) ==
  /\ resp' = Respond(resp, n, 200, "Processing complete", n)
  /\ cyc' = [cyc EXCEPT ![n] = Idle]
  /\ isProcessingQueue' = Released
  /\ ticks' = Scheduled(ticks)

\* the cycle of request n has run up to its next await with the locals c:
\* at the end of the batch the historyId is advanced and written, and
\* without a sheet the cycle ends in the same step     index.js:210-272
AfterWalk(n, c) ==
  /\ lastProcessedHistoryId' = LastAfterWalk(c, n)
  /\ IF c.pc = "persist" /\ ~WriteAwaited
     THEN CycleEnds(n)
     ELSE /\ cyc' = [cyc EXCEPT ![n] = c]
          /\ UNCHANGED <<resp, isProcessingQueue, ticks>>

\* normal branch: history.list returns the records after startHistoryId, or
\* fails                                          index.js:199-216, 262-272
HistoryReturn(n) ==
  /\ ticks = 0 /\ cyc[n].pc = "history"
  /\ \E ok \in BOOLEAN :
     /\ lastCall' = Outcome("history", ok)
     /\ IF ~HistoryThrows(ok)
        THEN LET c == Walk([cyc[n] EXCEPT
                             !.batch = ListChanges(history, cyc[n].start)], 1)
             IN AfterWalk(n, c)
        ELSE /\ resp' = Respond(resp, n, 500, "Failed processing", n)
             /\ cyc' = [cyc EXCEPT ![n] = Idle]
             /\ isProcessingQueue' = Released
             /\ ticks' = Scheduled(ticks)
             /\ UNCHANGED lastProcessedHistoryId
  /\ UNCHANGED <<isInitialisedThisRun, initInProgress, notificationQueue,
                 startup, arrived, cursorOf, history, sheetConfigured, sheet,
                 fwdBy, profileCalls, profileOk>>

\* normal branch: messages.get returns the labels of the message, or fails;
\* a message in INBOX is posted to n8n             index.js:217-246, 255-272
TagsReturn(n) ==
  /\ ticks = 0 /\ cyc[n].pc = "tags"
  /\ LET m == cyc[n].batch[cyc[n].idx] IN
     \E ok \in BOOLEAN, labels \in LabelSets :
     /\ lastCall' = Outcome("tags", ok)
     /\ IF ok /\ Qualifies(labels)
        THEN /\ cyc' = [cyc EXCEPT ![n] =
                          [SawLabels(cyc[n], m, labels) EXCEPT
                             !.pc = "forward", !.fwdCalls[m] = @ + 1]]
             /\ fwdBy' = [fwdBy EXCEPT ![m] = @ \cup {n}]
             /\ UNCHANGED <<lastProcessedHistoryId, resp, isProcessingQueue,
                            ticks>>
        ELSE LET c == IF ~ok
                      THEN AfterItemError(cyc[n], m)
                      ELSE Walk(MarkProcessed(SawLabels(cyc[n], m, labels),
                                              m, TRUE), cyc[n].idx + 1)
             IN /\ AfterWalk(n, c)
                /\ UNCHANGED fwdBy
  /\ UNCHANGED <<isInitialisedThisRun, initInProgress,
                 notificationQueue, startup, arrived, cursorOf,
                 history, sheetConfigured, sheet, profileCalls,
                 profileOk>>

\* normal branch: the POST to n8n returns, fails or times out
\*                                                 index.js:233-246, 255-272
ForwardReturn(n) ==
  /\ ticks = 0 /\ cyc[n].pc = "forward"
  /\ LET m == cyc[n].batch[cyc[n].idx] IN
     \E ok \in BOOLEAN :
     /\ lastCall' = Outcome("forward", ok)
     /\ LET c == IF ok
                 THEN Walk(MarkProcessed(cyc[n], m, TRUE), cyc[n].idx + 1)
                 ELSE AfterItemError(cyc[n], m)
        IN AfterWalk(n, c)
  /\ UNCHANGED <<isInitialisedThisRun, initInProgress,
                 notificationQueue, startup, arrived, cursorOf,
                 history, sheetConfigured, sheet, fwdBy,
                 profileCalls, profileOk>>

\* normal branch: the PUT of writeLastHistoryIdToSheet returns (a sheet is
\* configured); respond and release               index.js:258-259, 268-272
PersistReturn(n) ==
  /\ ticks = 0 /\ cyc[n].pc = "persist"
  /\ \E ok \in BOOLEAN :
       /\ sheet' = SheetAfterWrite(ok, lastProcessedHistoryId)
       /\ lastCall' = Outcome("sheetWrite", ok)
  /\ CycleEnds(n)
  /\ UNCHANGED <<lastProcessedHistoryId, isInitialisedThisRun, initInProgress,
                 notificationQueue, startup, arrived, cursorOf, history,
                 sheetConfigured, fwdBy, profileCalls, profileOk>>

\* ---------------------------------------------------------------- spec
Next ==
  \/ Listen
  \/ StartupTokenReturn
  \/ StartupSheetReturn
  \/ MailboxAdd
  \/ IntakeReject
  \/ Intake
  \/ Tick
  \/ \E n \in Requests : TokenReturn(n)
  \/ \E n \in Requests : SheetReadReturn(n)
  \/ \E n \in Requests : ProfileReturn(n)
  \/ \E n \in Requests : InitWriteReturn(n)
  \/ \E n \in Requests : HistoryReturn(n)
  \/ \E n \in Requests : TagsReturn(n)
  \/ \E n \in Requests : ForwardReturn(n)
  \/ \E n \in Requests : PersistReturn(n)

Spec == Init /\ [][Next]_vars

TypeOK ==
  /\ lastProcessedHistoryId \in 0..MaxCursor
  /\ ticks \in 0..2
  /\ arrived \in 0..MaxRequests
  /\ sheet \in 0..MaxCursor
  /\ lastCall \in [api : Apis \cup {"none"}, ok : BOOLEAN]

\* the event loop runs every queued nextTick callback and delivers the result
\* of every external call; the callbacks of the startup read can be delayed
\* by nextTick callbacks again and again, but not forever
Fairness ==
  /\ WF_vars(Tick)
  /\ SF_vars(StartupTokenReturn)
  /\ SF_vars(StartupSheetReturn)
  /\ WF_vars(\E n \in Requests : TokenReturn(n))
  /\ WF_vars(\E n \in Requests : SheetReadReturn(n))
  /\ WF_vars(\E n \in Requests : ProfileReturn(n))
  /\ WF_vars(\E n \in Requests : InitWriteReturn(n))
  /\ WF_vars(\E n \in Requests : HistoryReturn(n))
  /\ WF_vars(\E n \in Requests : TagsReturn(n))
  /\ WF_vars(\E n \in Requests : ForwardReturn(n))
  /\ WF_vars(\E n \in Requests : PersistReturn(n))

FairSpec == Spec /\ Fairness

\* what the calls themselves guarantee: only the POST to n8n carries a
\* timeout (timeout: 15000), so only that call is certain to come back, as
\* an answer or as an error; the token, sheet, profile, history and message
\* requests are made without one and can stay pending   index.js:233-236
\* (the write of the historyId is such a request only with a sheet: without
\* one it is no step of its own, see WriteAwaited)
TimeoutFairness ==
  /\ WF_vars(Tick)
  /\ WF_vars(\E n \in Requests : ForwardReturn(n))

TimeoutSpec == Spec /\ TimeoutFairness

\* ---------------------------------------------------------------- claims
Valid(n) == cursorOf[n] # 0
Responded(n) == resp[n] # <<>>
Answer(status, body, by) == <<[status |-> status, body |-> body, by |-> by]>>
Range(f) == {f[i] : i \in DOMAIN f}

\* the step in which the normal cycle of request n, with no sheet to write
\* to, comes to the end of its batch and ends (a cycle waiting for
\* history.list also ends when that call fails: that step is not meant)
EndsAtOnce(n) ==
  /\ cyc[n].pc \in {"history", "tags", "forward"}
  /\ cyc'[n].pc = "idle"
  /\ ~(cyc[n].pc = "history" /\ ~lastCall'.ok)

\* the step in which the normal cycle of request n comes to the end of its
\* batch: it goes on to the write of the historyId, or ends at once
EndsBatch(n) ==
  \/ cyc[n].pc \in {"history", "tags", "forward"} /\ cyc'[n].pc = "persist"
  \/ EndsAtOnce(n)

\* C1  Single-flight: at any instant at most one processItemFromQueue call
\* holds a dequeued, unanswered notification.
C1_SingleFlight == Cardinality(Active) <= 1

\* a cycle started by the first of the two nextTick callbacks of the
\* contention path, the second one still pending, with a notification queued
C1_Witness ==
  /\ Cardinality(Active) = 1
  /\ ticks = 1
  /\ notificationQueue # <<>>

\* C2  Monotonicity: once lastProcessedHistoryId is set, every step leaves it
\* equal or larger.
C2_Monotonic ==
  [][lastProcessedHistoryId # 0
       => lastProcessedHistoryId' >= lastProcessedHistoryId]_vars

\* a normal cycle has overwritten a set historyId with a larger one while an
\* older notification waits in the queue
C2_Witness ==
  \E n \in Requests :
    /\ cyc[n].pc = "persist"
    /\ cyc[n].start # 0
    /\ lastProcessedHistoryId > cyc[n].start
    /\ \E k \in Range(notificationQueue) : cursorOf[k] < lastProcessedHistoryId

\* the step in which the cycle of request n, on an initialised engine, gets
\* the answer of the token call for a notification that is not newer
StaleResolve(n) ==
  /\ cyc[n].pc = "token" /\ cyc'[n] # cyc[n]
  /\ isInitialisedThisRun
  /\ lastProcessedHistoryId # 0
  /\ cursorOf[n] <= lastProcessedHistoryId

NoDownstreamCall(n) ==
  /\ cyc'[n].pc = "idle"
  /\ fwdBy' = fwdBy
  /\ profileCalls' = profileCalls
  /\ lastProcessedHistoryId' = lastProcessedHistoryId

\* C3 as stated: resolving a notification that is not newer calls neither the
\* change source nor the forward sink, keeps the cursor and answers success.
C3_Original ==
  [][\A n \in Requests :
       StaleResolve(n) =>
         /\ NoDownstreamCall(n)
         /\ resp'[n] = Answer(200, "Old or duplicate event", n)]_vars

\* C3 amended: resolving a notification that is not newer calls neither the
\* change source nor the forward sink and keeps the cursor; it answers
\* success when the token call of the cycle succeeded and 500 when it failed.
C3_Idempotent ==
  [][\A n \in Requests :
       StaleResolve(n) =>
         /\ NoDownstreamCall(n)
         /\ resp'[n] = IF lastCall'.ok
                       THEN Answer(200, "Old or duplicate event", n)
                       ELSE Answer(500, "Failed processing", n)]_vars

\* a notification whose historyId equals the last processed one was answered
\* as old, and nothing was forwarded for it
C3_Witness ==
  \E n \in Requests :
    /\ resp[n] = Answer(200, "Old or duplicate event", n)
    /\ cursorOf[n] = lastProcessedHistoryId
    /\ \A m \in Cursors : n \notin fwdBy[m]

\* C4  Exactly-once across cycles: no message is posted to the forward sink
\* by the cycles of two different notifications.
C4_ExactlyOnceAcrossCycles ==
  \A m \in Cursors : Cardinality(fwdBy[m]) <= 1

Occurrences(batch, m) == Cardinality({i \in DOMAIN batch : batch[i] = m})

\* C5  Dedup within a cycle: a cycle never fetches the tags of a message id
\* twice nor posts it twice, and once the batch is walked every message id
\* in it has had exactly one tag fetch, however its first attempt ended.
\* (a cycle that ends in the step of its last call, there being no sheet,
\* is looked at in that step: no fetch is issued in it)
C5_DedupWithinCycle ==
  /\ [](\A n \in Requests :
         /\ \A m \in Cursors :
              cyc[n].tagCalls[m] <= 1 /\ cyc[n].fwdCalls[m] <= 1
         /\ cyc[n].pc = "persist" =>
              \A m \in Range(cyc[n].batch) : cyc[n].tagCalls[m] = 1)
  /\ [][\A n \in Requests :
          EndsAtOnce(n) =>
            \A m \in Range(cyc[n].batch) : cyc[n].tagCalls[m] = 1]_vars

\* a walked batch that listed a failed message twice and a forwarded message
\* twice
C5_Witness ==
  \E n \in Requests :
    /\ cyc[n].pc = "persist"
    /\ \E m \in cyc[n].failed : Occurrences(cyc[n].batch, m) = 2
    /\ \E m \in cyc[n].qualified \ cyc[n].failed :
         Occurrences(cyc[n].batch, m) = 2

ColdStartPcs == {"sheetRead", "profile", "initWrite"}
InitialisedBy == {n \in Requests : resp[n] = Answer(200, "Initialized state", n)}

\* C6 as stated: once notifications queued before a baseline existed have
\* been resolved by a cold start, exactly one users/me/profile call was made.
C6_Original ==
  (isInitialisedThisRun /\ InitialisedBy # {}) => profileCalls = 1

\* C6 amended: at most one users/me/profile call succeeds and at most one
\* cycle establishes the baseline, and once isInitialisedThisRun is true it
\* stays true and no cycle enters the cold-start branch.
C6_ColdStartOnce ==
  [][/\ profileOk' <= 1
     /\ Cardinality(InitialisedBy') <= 1
     /\ isInitialisedThisRun =>
          /\ isInitialisedThisRun'
          /\ \A n \in Requests :
               cyc[n].pc = "token" => cyc'[n].pc \notin ColdStartPcs]_vars

\* two notifications were queued before a baseline existed: the cold start
\* of the first failed at the profile call, that of the second established
\* the baseline
C6_Witness ==
  /\ isInitialisedThisRun
  /\ profileCalls = 2 /\ profileOk = 1
  /\ \E a, b \in Requests :
       /\ a < b
       /\ resp[a] = Answer(500, "Initialization failed", a)
       /\ resp[b] = Answer(200, "Initialized state", b)

\* C7  No notification is lost: under FairSpec every queued notification is
\* eventually answered.
C7_NoNotificationLost ==
  \A n \in Requests : Valid(n) ~> Responded(n)

\* two notifications were queued while the startup read was in flight, were
\* put back by the contention path, and both have been answered
C7_Witness ==
  /\ startup = "done"
  /\ notificationQueue = <<>> /\ Active = {}
  /\ sheetConfigured /\ sheet = 0 /\ profileCalls = 0
  /\ \E a, b \in Requests :
       a # b /\ Valid(a) /\ Valid(b)
       /\ resp[a] = Answer(500, "Failed processing", a)
       /\ resp[b] = Answer(500, "Failed processing", b)

\* C8  A queued notification is answered at most once, and only by the
\* cycle that owns it: never by app.post('/'), never by another cycle.
C8_AnsweredOnceByOwner ==
  \A n \in Requests :
    Valid(n) => /\ Len(resp[n]) <= 1
                /\ \A i \in DOMAIN resp[n] : resp[n][i].by = n

\* a notification has been answered by its cycle while the cycle of a later
\* one is active
C8_Witness ==
  \E a, b \in Requests :
    /\ Valid(a) /\ Len(resp[a]) = 1 /\ resp[a][1].by = a
    /\ b \in Active

\* C9  FIFO: a notification is dequeued for resolution only after every
\* notification queued before it has been answered and its cycle is over;
\* the queue holds the notifications in arrival order.
C9_FifoOrder ==
  /\ \A a, b \in Requests :
       (Valid(a) /\ Valid(b) /\ a < b /\ (b \in Active \/ Responded(b)))
         => (Responded(a) /\ a \notin Active)
  /\ \A i, j \in DOMAIN notificationQueue :
       i < j => notificationQueue[i] < notificationQueue[j]

\* right after a contention re-queue: the re-queued notification is owned by
\* the next cycle (the second nextTick still pending) and a later one waits
C9_Witness ==
  /\ ticks = 1
  /\ \E a \in Active : \E b \in Range(notificationQueue) : a < b

\* C10  Per-item failure isolation: a cycle waiting for a tag fetch or a
\* forward goes on to the next item or to the cursor advance, whatever the
\* call returns; when the batch is walked every message id of the batch has
\* had its tag fetch and every one found in INBOX its forward call.
\* (without a sheet the cursor advance, the answer and the end of the cycle
\* are part of the step of the last call, which issues no call itself)
C10_ItemFailureIsolated ==
  [][\A n \in Requests :
       (cyc[n].pc \in {"tags", "forward"} /\ cyc'[n] # cyc[n]) =>
         /\ \/ cyc'[n].pc \in {"tags", "forward", "persist"}
            \/ /\ ~sheetConfigured
               /\ cyc'[n] = Idle
               /\ resp'[n] = Answer(200, "Processing complete", n)
         /\ cyc'[n].pc = "persist" =>
              \A m \in Range(cyc'[n].batch) :
                /\ cyc'[n].tagCalls[m] = 1
                /\ m \in cyc'[n].qualified => cyc'[n].fwdCalls[m] = 1
         /\ cyc'[n].pc = "idle" =>
              \A m \in Range(cyc[n].batch) :
                /\ cyc[n].tagCalls[m] = 1
                /\ m \in cyc[n].qualified => cyc[n].fwdCalls[m] = 1]_vars

\* a walked batch in which a message failed and a later message was still
\* fetched and forwarded
C10_Witness ==
  \E n \in Requests :
    /\ cyc[n].pc = "persist"
    /\ \E f \in cyc[n].failed :
         \E m \in cyc[n].qualified \ cyc[n].failed :
           m > f /\ cyc[n].tagCalls[m] = 1 /\ cyc[n].fwdCalls[m] = 1

\* C11  Unconditional cursor advance: the step in which a normal cycle comes
\* to the end of its batch sets lastProcessedHistoryId to the historyId of
\* the notification, whether or not calls for single messages failed, and
\* the step that ends the cycle answers "Processing complete" with
\* lastProcessedHistoryId still at that value.
\* (with a sheet the cycle ends when the write returns, without one in the
\* step that ends the batch)
C11_CursorAdvance ==
  [][\A n \in Requests :
       /\ EndsBatch(n) => lastProcessedHistoryId' = cursorOf[n]
       /\ cyc[n].pc = "persist" /\ cyc'[n] # cyc[n]
            => /\ lastProcessedHistoryId = cursorOf[n]
               /\ lastProcessedHistoryId' = cursorOf[n]
               /\ resp'[n] = Answer(200, "Processing complete", n)
       /\ EndsAtOnce(n)
            => /\ ~sheetConfigured
               /\ resp'[n] = Answer(200, "Processing complete", n)]_vars

\* a cycle is past a batch in which the calls of every message failed, and
\* lastProcessedHistoryId has moved from its value at the start of the cycle
\* to the historyId of the notification
C11_Witness ==
  \E n \in Requests :
    /\ cyc[n].pc = "persist"
    /\ cyc[n].batch # <<>>
    /\ cyc[n].failed = Range(cyc[n].batch)
    /\ cyc[n].start < cursorOf[n]
    /\ lastProcessedHistoryId = cursorOf[n]

\* the step in which the token call of the cycle of request n fails
TokenFails(n) ==
  /\ cyc[n].pc = "token" /\ cyc'[n] # cyc[n]
  /\ lastCall' = Outcome("token", FALSE)

\* C12  Token failure: the step in which the token call of a cycle fails
\* answers 500, leaves lastProcessedHistoryId and isInitialisedThisRun as
\* they were, issues no call to Gmail, the sheet or n8n, releases the lock
\* and schedules the drain; the scheduled drain, run with the lock free and
\* a notification queued, dequeues the head of the queue.
C12_TokenFailure ==
  [][/\ \A n \in Requests :
          TokenFails(n) =>
            /\ resp'[n] = Answer(500, "Failed processing", n)
            /\ UNCHANGED <<lastProcessedHistoryId, isInitialisedThisRun,
                           initInProgress, sheet, fwdBy, profileCalls,
                           notificationQueue>>
            /\ cyc'[n] = Idle
            /\ ~isProcessingQueue'
            /\ ticks' = ticks + 1
     /\ (ticks > 0 /\ ~isProcessingQueue /\ notificationQueue # <<>>)
          => /\ ticks' = ticks - 1
             /\ notificationQueue' = Tail(notificationQueue)
             /\ cyc'[Head(notificationQueue)].pc = "token"]_vars

\* the token call of the first notification failed on an engine that was
\* never initialised: it was answered 500, nothing was called, and the
\* second notification has been dequeued in its turn
C12_Witness ==
  /\ resp[1] = Answer(500, "Failed processing", 1)
  /\ lastCall = Outcome("token", FALSE)
  /\ ~isInitialisedThisRun /\ lastProcessedHistoryId = 0
  /\ profileCalls = 0
  /\ cyc[2].pc = "token"
  /\ startup = "done"

\* the step in which the history.list call of the cycle of request n fails
HistoryFails(n) ==
  /\ cyc[n].pc = "history" /\ cyc'[n] # cyc[n]
  /\ lastCall' = Outcome("history", FALSE)

\* C13  History-listing failure: the step in which history.list fails ends
\* the cycle with 500; lastProcessedHistoryId keeps the value it had when
\* the cycle started, isInitialisedThisRun and the sheet are untouched, no
\* messages.get or forward call was or is issued, and the lock is released.
C13_HistoryFailure ==
  [][\A n \in Requests :
       HistoryFails(n) =>
         /\ resp'[n] = Answer(500, "Failed processing", n)
         /\ lastProcessedHistoryId = cyc[n].start
         /\ UNCHANGED <<lastProcessedHistoryId, isInitialisedThisRun,
                        initInProgress, sheet, fwdBy, profileCalls,
                        notificationQueue>>
         /\ cyc[n].tagCalls = ZeroCalls /\ cyc[n].fwdCalls = ZeroCalls
         /\ cyc'[n] = Idle
         /\ ~isProcessingQueue'
         /\ ticks' = ticks + 1]_vars

\* history.list failed for a notification newer than lastProcessedHistoryId:
\* it was answered 500 and a redelivery would again be newer
C13_Witness ==
  \E n \in Requests :
    /\ resp[n] = Answer(500, "Failed processing", n)
    /\ lastCall = Outcome("history", FALSE)
    /\ isInitialisedThisRun
    /\ lastProcessedHistoryId # 0
    /\ cursorOf[n] > lastProcessedHistoryId
    /\ \A m \in Cursors : n \notin fwdBy[m]

\* the step in which the cycle of request n gets the result of call `api`
Returns(n, pc, api, ok) ==
  /\ cyc[n].pc = pc /\ cyc'[n] # cyc[n]
  /\ lastCall' = Outcome(api, ok)

\* C14  Store failure in the normal branch: the step in which the write of
\* the advanced historyId to the sheet fails answers with a server error and
\* leaves lastProcessedHistoryId at the value it had when the cycle started.
C14_StoreFailure ==
  [][\A n \in Requests :
       Returns(n, "persist", "sheetWrite", FALSE) =>
         /\ Responded(n)'
         /\ resp'[n][1].status >= 500
         /\ lastProcessedHistoryId' = cyc[n].start]_vars

\* C15  Cold-start success: in a cold-start cycle, a read that finds a
\* historyId in the sheet sets lastProcessedHistoryId to it; otherwise a
\* successful users/me/profile call sets it to the current historyId of the
\* mailbox, and the write that follows stores that value; the step that
\* completes either way sets isInitialisedThisRun, clears initInProgress and
\* answers 200 "Initialized state"; the cycle lists no history, fetches no
\* message and forwards nothing.
\* (without a sheet there is nothing to write: the step of the profile call
\* completes the cold start)
C15_ColdStartSuccess ==
  [][\A n \in Requests :
       /\ (Returns(n, "sheetRead", "sheetRead", TRUE) /\ sheet # 0)
            => /\ lastProcessedHistoryId' = sheet
               /\ isInitialisedThisRun' /\ ~initInProgress'
               /\ resp'[n] = Answer(200, "Initialized state", n)
               /\ cyc'[n] = Idle
               /\ UNCHANGED <<sheet, profileCalls>>
       /\ Returns(n, "profile", "profile", TRUE)
            => /\ lastProcessedHistoryId' = Len(history)
               /\ IF sheetConfigured
                  THEN cyc'[n].pc = "initWrite"
                  ELSE /\ isInitialisedThisRun' /\ ~initInProgress'
                       /\ resp'[n] = Answer(200, "Initialized state", n)
                       /\ cyc'[n] = Idle
                       /\ UNCHANGED sheet
       /\ Returns(n, "initWrite", "sheetWrite", TRUE)
            => /\ sheetConfigured
               /\ sheet' = lastProcessedHistoryId
               /\ UNCHANGED lastProcessedHistoryId
               /\ isInitialisedThisRun' /\ ~initInProgress'
               /\ resp'[n] = Answer(200, "Initialized state", n)
               /\ cyc'[n] = Idle
       /\ cyc[n].pc \in ColdStartPcs
            => /\ cyc[n].batch = <<>>
               /\ cyc[n].tagCalls = ZeroCalls /\ cyc[n].fwdCalls = ZeroCalls
               /\ cyc'[n].pc \in ColdStartPcs \cup {"idle"}
               /\ UNCHANGED fwdBy]_vars

\* a cold start on an empty sheet took the historyId of the mailbox, which
\* is beyond that of the notification, as the baseline, wrote it to the
\* sheet and answered "Initialized state"; nothing was forwarded
C15_Witness ==
  \E n \in Requests :
    /\ resp[n] = Answer(200, "Initialized state", n)
    /\ lastCall = Outcome("sheetWrite", TRUE)
    /\ isInitialisedThisRun /\ ~initInProgress
    /\ lastProcessedHistoryId = Len(history)
    /\ sheet = lastProcessedHistoryId
    /\ cursorOf[n] < lastProcessedHistoryId
    /\ \A m \in Cursors : fwdBy[m] = {}

\* C16  Cold-start failure: the step in which a call of the cold-start
\* branch fails (the read of the sheet, users/me/profile, or the write to
\* the sheet) answers with a server error and leaves isInitialisedThisRun
\* false.
C16_ColdStartFailure ==
  [][\A n \in Requests :
       (cyc[n].pc \in ColdStartPcs /\ cyc'[n] # cyc[n] /\ ~lastCall'.ok) =>
         /\ Responded(n)'
         /\ resp'[n][1].status >= 500
         /\ ~isInitialisedThisRun']_vars

\* C17  Malformed input is rejected at intake: the step in which a request
\* arrives from which no historyId can be taken answers it 400 from
\* app.post('/'), queues nothing, starts no processItemFromQueue cycle and
\* leaves the queue, the lock and the state of the engine as they were.
C17_MalformedRejected ==
  [][(arrived' = arrived + 1 /\ cursorOf'[arrived'] = 0) =>
       /\ resp'[arrived'] = Answer(400, "Bad Request", 0)
       /\ \A n \in Requests \ {arrived'} : resp'[n] = resp[n]
       /\ UNCHANGED <<notificationQueue, cyc, isProcessingQueue, ticks,
                      lastProcessedHistoryId, isInitialisedThisRun,
                      initInProgress, sheet, fwdBy, profileCalls, lastCall>>]_vars

\* the second request was malformed and arrived while the cycle of the first
\* one was waiting for a call: it was answered 400 and is neither queued nor
\* in a cycle
C17_Witness ==
  /\ resp[2] = Answer(400, "Bad Request", 0)
  /\ cursorOf[2] = 0
  /\ cyc[1].pc \in {"history", "tags", "forward", "persist"}
  /\ cyc[2] = Idle
  /\ 2 \notin Range(notificationQueue)

\* the step in which the cycle of request n gets its token on an engine that
\* is not initialised while an initialisation is in progress
Contention(n) ==
  /\ Returns(n, "token", "token", TRUE)
  /\ ~isInitialisedThisRun /\ initInProgress

\* C18  Cold-start contention defers, never drops: from the dequeue of a
\* notification to the contention step the queue only grows at its tail;
\* the contention step puts the notification back in front of the queue,
\* releases the lock, schedules processItemFromQueue and calls neither the
\* sheet nor Gmail nor n8n.
C18_ContentionDefers ==
  [][\A n \in Requests :
       /\ (cyc[n].pc = "idle" /\ cyc'[n].pc = "token")
            => <<n>> \o notificationQueue'
                 \in {notificationQueue, Append(notificationQueue, arrived')}
       /\ (cyc[n].pc = "token" /\ cyc'[n] = cyc[n])
            => notificationQueue'
                 \in {notificationQueue, Append(notificationQueue, arrived')}
       /\ Contention(n)
            => /\ notificationQueue' = <<n>> \o notificationQueue
               /\ cyc'[n] = Idle
               /\ ~isProcessingQueue'
               /\ ticks' > ticks
               /\ UNCHANGED <<lastProcessedHistoryId, isInitialisedThisRun,
                              initInProgress, sheet, fwdBy, profileCalls>>]_vars

\* the first notification met the initialisation of the startup read, with
\* the second one queued behind it: it is back in front of the second one,
\* the lock is free and the two scheduled callbacks are pending
C18_Witness ==
  /\ notificationQueue = <<1, 2>>
  /\ lastCall = Outcome("token", TRUE)
  /\ ~isInitialisedThisRun /\ initInProgress
  /\ ~isProcessingQueue
  /\ ticks = 2
  /\ Active = {}
  /\ profileCalls = 0

\* C19  On cold-start contention the caller of the notification receives
\* 202, and the notification stays queued.
C19_ContentionAnswered ==
  [][\A n \in Requests :
       Contention(n) =>
         /\ Responded(n)'
         /\ resp'[n][1].status = 202
         /\ n \in Range(notificationQueue')]_vars

\* the messages of the batch for which the cycle called the forward sink
Forwarded(c) == {m \in Cursors : c.fwdCalls[m] > 0}

\* C20  Forward set of a normal cycle: a cycle posts to n8n only messages
\* whose labels held INBOX when it fetched them; at the end of a batch in
\* which no call failed, every distinct message of the batch was fetched
\* once, the messages posted are exactly those whose labels held INBOX,
\* each posted once, and lastProcessedHistoryId is the historyId of the
\* notification.
\* (a cycle that ends in the step of its last call, there being no sheet,
\* is looked at in that step: its last call succeeds and posts nothing)
C20_ForwardSet ==
  /\ [](\A n \in Requests :
         /\ Forwarded(cyc[n]) \subseteq cyc[n].qualified
         /\ (cyc[n].pc = "persist" /\ cyc[n].failed = {})
              => /\ Forwarded(cyc[n]) = cyc[n].qualified
                 /\ cyc[n].qualified \subseteq Range(cyc[n].batch)
                 /\ \A m \in Range(cyc[n].batch) : cyc[n].tagCalls[m] = 1
                 /\ \A m \in cyc[n].qualified : cyc[n].fwdCalls[m] = 1
                 /\ lastProcessedHistoryId = cursorOf[n])
  /\ [][\A n \in Requests :
          (EndsAtOnce(n) /\ cyc[n].failed = {} /\ lastCall'.ok)
            => /\ Forwarded(cyc[n]) = cyc[n].qualified
               /\ cyc[n].qualified \subseteq Range(cyc[n].batch)
               /\ \A m \in Range(cyc[n].batch) : cyc[n].tagCalls[m] = 1
               /\ \A m \in cyc[n].qualified : cyc[n].fwdCalls[m] = 1
               /\ fwdBy' = fwdBy
               /\ lastProcessedHistoryId' = cursorOf[n]]_vars

\* scenario B: the batch lists message 2 twice and message 3 once, only
\* message 2 is in INBOX; it was posted once, message 3 was not, and
\* lastProcessedHistoryId is that of the notification
C20_Witness ==
  \E n \in Requests :
    /\ cyc[n].pc = "persist"
    /\ cyc[n].batch = <<2, 2, 3>>
    /\ cyc[n].failed = {}
    /\ cyc[n].qualified = {2}
    /\ cyc[n].fwdCalls[2] = 1 /\ cyc[n].fwdCalls[3] = 0
    /\ lastProcessedHistoryId = cursorOf[n]
    /\ cursorOf[n] = 3

\* C21  Every resolution cycle terminates: a cycle that has dequeued a
\* notification ends, given only that the calls which carry a timeout come
\* back.
C21_CycleTerminates ==
  \A n \in Requests : (cyc[n].pc # "idle") ~> (cyc[n].pc = "idle")

\* the messages for which the cycle has fetched labels
Fetched(c) == {m \in Cursors : c.tagCalls[m] > 0}

\* C22  Resolved window is half-open and bounded above: every message a
\* normal cycle fetches or posts was added by a history record after the
\* startHistoryId of the cycle and not after the historyId of its
\* notification.
C22_WindowBounded ==
  \A n \in Requests :
    \A m \in Fetched(cyc[n]) \cup Forwarded(cyc[n]) :
      cyc[n].start < m /\ m <= cursorOf[n]

\* C23  Windows are gap-free: lastProcessedHistoryId changes only when the
\* startup read or a cold start sets it to the value of the sheet, when a
\* cold start sets it to the current historyId of the mailbox, or when a
\* normal cycle ends its batch and sets it to the historyId of its
\* notification; a cold start never takes it from the notification; and
\* history.list is called with the value lastProcessedHistoryId has at that
\* moment, which stays the same while the call is pending.
C23_GapFree ==
  [][/\ lastProcessedHistoryId' # lastProcessedHistoryId
          => \/ startup = "sheet" /\ startup' = "done"
                  /\ lastProcessedHistoryId' = sheet
             \/ \E n \in Requests :
                  \/ Returns(n, "sheetRead", "sheetRead", TRUE)
                       /\ lastProcessedHistoryId' = sheet
                  \/ Returns(n, "profile", "profile", TRUE)
                       /\ lastProcessedHistoryId' = Len(history)
                  \/ EndsBatch(n)
                       /\ lastProcessedHistoryId' = cursorOf[n]
     /\ \A n \in Requests :
          /\ (cyc[n].pc = "token" /\ cyc'[n].pc = "history")
               => /\ cyc'[n].start = lastProcessedHistoryId
                  /\ UNCHANGED lastProcessedHistoryId
          /\ cyc[n].pc = "history"
               => cyc[n].start = lastProcessedHistoryId]_vars

\* a cold start took the baseline 1 from the sheet; the next notification,
\* with historyId 2, is resolved by a history.list call that starts from 1
C23_Witness ==
  /\ resp[1] = Answer(200, "Initialized state", 1)
  /\ profileCalls = 0
  /\ cyc[2].pc = "history"
  /\ cyc[2].start = 1
  /\ cursorOf[2] = 2
  /\ sheet = 1

\* C24  Finalization on every path: every step that ends a cycle, whichever
\* branch it ends in, leaves isProcessingQueue false and schedules
\* processItemFromQueue; and isProcessingQueue true always leads to
\* isProcessingQueue false, given no more than what the calls themselves
\* guarantee (TimeoutSpec).
C24_Finalization ==
  /\ [][\A n \in Requests :
          (cyc[n].pc # "idle" /\ cyc'[n].pc = "idle")
            => ~isProcessingQueue' /\ ticks' > ticks]_vars
  /\ (isProcessingQueue ~> ~isProcessingQueue)

\* C25  processItemFromQueue is a no-op when it cannot start a cycle: a
\* scheduled callback that runs while the lock is held or the queue is
\* empty changes nothing but the count of pending callbacks, and the call
\* made by app.post('/') while the lock is held leaves the pushed
\* notification at the tail of the queue, starts no cycle and changes
\* nothing else.
C25_DrainNoOp ==
  [][/\ (ticks' = ticks - 1
           /\ (isProcessingQueue \/ notificationQueue = <<>>))
          => UNCHANGED <<notificationQueue, lastProcessedHistoryId,
                         isInitialisedThisRun, initInProgress,
                         isProcessingQueue, cyc, resp, sheet, fwdBy,
                         profileCalls, lastCall>>
     /\ (arrived' = arrived + 1 /\ cursorOf'[arrived'] # 0
           /\ isProcessingQueue)
          => /\ notificationQueue' = Append(notificationQueue, arrived')
             /\ UNCHANGED <<lastProcessedHistoryId, isInitialisedThisRun,
                            initInProgress, isProcessingQueue, cyc, resp,
                            sheet, fwdBy, profileCalls, lastCall, ticks>>]_vars

\* the second of the two callbacks scheduled by the contention path is
\* pending while the first one has taken the lock for notification 1, and
\* notification 2 is queued: the callback will find the lock held
C25_Witness ==
  /\ ticks = 1
  /\ isProcessingQueue
  /\ cyc[1].pc = "token"
  /\ notificationQueue = <<2>>

\* the step in which app.post('/') accepts a well-formed notification
Accepts(n) == arrived' = n /\ arrived = n - 1 /\ cursorOf'[n] # 0

\* C26  Enqueue never drops and only appends: the step that accepts a
\* notification leaves the queue as it was with the notification added at
\* the tail, less the head when the call of processItemFromQueue that
\* follows the push starts a cycle; it changes neither
\* lastProcessedHistoryId, isInitialisedThisRun or initInProgress nor the
\* cycle that is waiting for a call, its notification or its response.
C26_EnqueueAppends ==
  [][\A n \in Requests :
       Accepts(n) =>
         /\ \/ notificationQueue' = Append(notificationQueue, n)
            \/ \E k \in Requests :
                 /\ cyc[k].pc = "idle" /\ cyc'[k].pc = "token"
                 /\ <<k>> \o notificationQueue' = Append(notificationQueue, n)
         /\ UNCHANGED <<lastProcessedHistoryId, isInitialisedThisRun,
                        initInProgress, sheet, fwdBy>>
         /\ \A k \in Active :
              /\ notificationQueue' = Append(notificationQueue, n)
              /\ cyc'[k] = cyc[k]
              /\ cursorOf'[k] = cursorOf[k]
              /\ resp'[k] = resp[k]]_vars

\* notifications 2 and 3 arrived, in that order, while the cycle of
\* notification 1 was waiting for the labels of a message: 3 was pushed on
\* a queue that held 2 and stands behind it, both are unanswered, and the
\* cycle goes on
C26_Witness ==
  /\ notificationQueue = <<2, 3>>
  /\ cursorOf[2] # 0 /\ cursorOf[3] # 0
  /\ resp[2] = <<>> /\ resp[3] = <<>>
  /\ cyc[1].pc = "tags"
  /\ ticks = 0

\* a step changes lastProcessedHistoryId, isInitialisedThisRun or
\* initInProgress
Mutates ==
  <<lastProcessedHistoryId, isInitialisedThisRun, initInProgress>>'
    # <<lastProcessedHistoryId, isInitialisedThisRun, initInProgress>>

\* a step of the cycle that holds the lock
ByCycle ==
  /\ isProcessingQueue
  /\ \E n \in Requests : cyc[n].pc # "idle" /\ cyc'[n] # cyc[n]

\* a step of the app.listen callback
BySeed == startup # "done" /\ startup' # startup /\ cyc' = cyc

\* C27 as stated: every change of lastProcessedHistoryId,
\* isInitialisedThisRun or initInProgress is made by a step of the cycle
\* that holds the lock.
C27_Original == [][Mutates => ByCycle]_vars

\* C27 amended: every such change is made by a step of the cycle that holds
\* the lock or by a step of the app.listen callback; while the callback is
\* waiting for a call no cycle makes such a change, and the callback makes
\* none while a cycle is past its token call.
C27_MutatedByCycleOrSeed ==
  [][Mutates =>
       /\ ByCycle \/ BySeed
       /\ startup \in {"token", "sheet"} => BySeed
       /\ BySeed => \A n \in Requests : cyc[n].pc \in {"idle", "token"}]_vars

\* the app.listen callback has set lastProcessedHistoryId and
\* isInitialisedThisRun from the sheet while the cycle of notification 1,
\* which holds the lock, was waiting for its token
C27_Witness ==
  /\ startup = "done"
  /\ lastCall = Outcome("sheetRead", TRUE)
  /\ isInitialisedThisRun
  /\ lastProcessedHistoryId = sheet /\ sheet # 0
  /\ cyc[1].pc = "token"
  /\ isProcessingQueue

\* C28  Cursor survives restart: with a sheet configured, whenever the
\* engine is initialised and no cycle is active, the sheet holds
\* lastProcessedHistoryId.
C28_StoreMatchesMemory ==
  (sheetConfigured /\ isInitialisedThisRun /\ Active = {})
    => sheet = lastProcessedHistoryId

\* an initialisation is running: the app.listen callback is waiting for a
\* call, or a cycle is in its cold-start branch
Initialising ==
  \/ startup \in {"token", "sheet"}
  \/ \E n \in Requests : cyc[n].pc \in ColdStartPcs

\* C29  initInProgress is always cleared: it is true exactly while an
\* initialisation is running, so it is false again when the initialisation
\* has ended, in success or in failure.
C29_InitFlagCleared == initInProgress <=> Initialising

\* a cold start has failed at users/me/profile and was answered 500;
\* initInProgress is false again
C29_Witness ==
  \E n \in Requests :
    /\ resp[n] = Answer(500, "Initialization failed", n)
    /\ lastCall = Outcome("profile", FALSE)
    /\ ~initInProgress
    /\ ~isInitialisedThisRun

\* the app.listen callback is waiting for its token or for the sheet
SeedInFlight == startup \in {"token", "sheet"}

\* C30  Startup seed blocks resolution: while the app.listen callback is
\* waiting for a call, no cycle is in the cold-start or the normal branch;
\* a cycle whose token call succeeds puts its notification back in front of
\* the queue without answering it; and the only answers given are the 400
\* of app.post('/') and the 500 of a failed token call.
C30_SeedBlocks ==
  [][\A n \in Requests :
       SeedInFlight =>
         /\ cyc[n].pc \in {"idle", "token"}
         /\ Returns(n, "token", "token", TRUE)
              => /\ notificationQueue' = <<n>> \o notificationQueue
                 /\ cyc'[n] = Idle
                 /\ resp'[n] = <<>>
         /\ Responded(n)
              => \/ resp[n] = Answer(400, "Bad Request", 0)
                 \/ resp[n] = Answer(500, "Failed processing", n)]_vars

\* the startup read of the sheet is pending; notification 1 got its token,
\* was put back in the queue unanswered, and the callbacks are scheduled
C30_Witness ==
  /\ startup = "sheet"
  /\ notificationQueue = <<1>>
  /\ resp[1] = <<>>
  /\ ticks = 2
  /\ lastCall = Outcome("token", TRUE)
  /\ Active = {}

\* C31  No stranded notification: whenever the lock is free and no
\* processItemFromQueue callback is pending, the queue is empty.
C31_NoStranded ==
  (~isProcessingQueue /\ ticks = 0) => notificationQueue = <<>>

\* every notification was dequeued and answered by its cycle; the lock
\* is free, no callback is pending and the queue is empty
C31_Witness ==
  /\ \A n \in Requests : Responded(n) /\ resp[n][1].by = n
  /\ ~isProcessingQueue
  /\ ticks = 0
  /\ notificationQueue = <<>>

\* C32  Initialised implies a cursor: whenever isInitialisedThisRun is true,
\* lastProcessedHistoryId holds a historyId, so no cycle finds the engine
\* initialised without one and takes the forced re-initialisation branch.
C32_InitialisedHasCursor ==
  isInitialisedThisRun => lastProcessedHistoryId # 0

\* a cold start took its baseline from users/me/profile; the cycle of the
\* next notification found a historyId, passed the forced
\* re-initialisation test and called history.list with it
C32_Witness ==
  /\ resp[1] = Answer(200, "Initialized state", 1)
  /\ profileOk = 1
  /\ isInitialisedThisRun
  /\ cyc[2].pc = "history"
  /\ cyc[2].start = lastProcessedHistoryId
  /\ lastProcessedHistoryId # 0

\* C33  Queue holds only unanswered notifications, each once: no
\* notification is twice in the queue, no queued notification has been
\* answered, and the notification of the active cycle is not in the queue.
C33_QueueUnanswered ==
  /\ \A i, j \in DOMAIN notificationQueue :
       notificationQueue[i] = notificationQueue[j] => i = j
  /\ \A k \in Range(notificationQueue) : ~Responded(k) /\ Valid(k)
  /\ Active \cap Range(notificationQueue) = {}

\* notification 2 waits in the queue, unanswered, while the cycle of
\* notification 1 is at the write of the advanced historyId
C33_Witness ==
  /\ notificationQueue = <<2>>
  /\ ~Responded(2)
  /\ cyc[1].pc = "persist"
  /\ ~Responded(1)
====
